---- MODULE Spec2Model ----
(***************************************************************************)
(* Model of the human-in-the-loop tool-call reconciliation of the chat     *)
(* agent: processToolCalls (src/src/server.ts) run over a transcript, with *)
(* the Execution Table of src/src/tools.ts.                                *)
(*                                                                         *)
(* A run is one call of processToolCalls.  JavaScript runs a turn to       *)
(* completion, so the synchronous segment of the call (the repair loop and *)
(* parts.map up to the first suspension of every part) is one action; each *)
(* continuation after an `await` and the settling of Promise.all are       *)
(* actions of their own, taken in any order the event loop allows.         *)
(***************************************************************************)
EXTENDS Naturals, Sequences, FiniteSets, TLC

VARIABLES
    executions,   \* the `executions` argument of processToolCalls
    input,        \* the transcript as it was when processToolCalls was called
    messages,     \* the `messages` array (the repair loop mutates it in place)
    pc,           \* "idle", "awaiting" (at await Promise.all), "returned", "thrown"
    slots,        \* one promise per part of the last message, by position
    settled,      \* positions of the awaited parts, in the order they settled
    calls,        \* every function invocation made through the Execution Table
    dataStream,   \* events written to the DataStreamWriter, in write order
    returned,     \* the value processToolCalls resolved with (<<>> before that)
    round,        \* 1 for the call on the transcript, 2 for a call on its result
    exec,         \* one run of an inline executor of tools.ts (browserRender, scheduleTask)
    bdo           \* one BrowserDo object: its fields, its storage alarm

vars == <<executions, input, messages, pc, slots, settled, calls, dataStream, returned,
          round, exec, bdo>>

toolVars == <<exec, bdo>>

chatVars == <<executions, input, messages, pc, slots, settled, calls, dataStream,
              returned, round>>

-----------------------------------------------------------------------------
(* Bounds of the model *)

\* messages before the last one
MaxHistory == 1
\* parts of the last message
MaxParts == 2
\* the `num` argument of browserRender and the stories on the page
MaxNum == 2
\* firings of the BrowserDo alarm
MaxFirings == 8

-----------------------------------------------------------------------------
(* Constants of the program *)

\* import { APPROVAL } from "./shared": the two verdict sentinels
APPROVAL == [YES |-> "APPROVED", NO |-> "DENIED"]

\* the replacement part of the repair loop
FailedText == [type |-> "text", text |-> "tool execution failed"]

NoExecuteError == "Error: No execute function found on tool"

\* the denial recorded as the verdict it came from
DeniedError_Sentinel == APPROVAL.NO

DeniedError == "Error: User denied access to tool execution"

\* `The weather in ${city} is sunny`
WeatherText(city) ==
    CASE city = "Paris" -> "The weather in Paris is sunny"
      [] city = "London" -> "The weather in London is sunny"

\* executions.getWeatherInformation: destructures args, returns the sentence;
\* destructuring undefined args raises a TypeError (the promise rejects)
getWeatherInformation(ti) ==
    IF "args" \in DOMAIN ti
    THEN [kind |-> "return", value |-> WeatherText(ti.args.city)]
    ELSE [kind |-> "throw", value |-> "TypeError"]

\* the registry with the confirmation tool given an inline execute
tools_WeatherInline ==
    [getWeatherInformation |-> {"description", "parameters", "execute"},
     getLocalTime |-> {"description", "parameters", "execute"},
     scheduleTask |-> {"description", "parameters", "execute"},
     browserRender |-> {"description", "parameters", "execute"}]

\* export const tools: each descriptor by the properties it is built with
tools ==
    [getWeatherInformation |-> {"description", "parameters"},
     getLocalTime |-> {"description", "parameters", "execute"},
     scheduleTask |-> {"description", "parameters", "execute"},
     browserRender |-> {"description", "parameters", "execute"}]

\* export const executions = { getWeatherInformation: async (...) => ... }
RealExecutions == [getWeatherInformation |-> "executions.getWeatherInformation"]

\* a table its declared type also admits: every entry is optional (`?:`)
StubExecutions == [getWeatherInformation |-> "undefined"]

\* what an object literal inherits: `executions` is a plain object
ObjectPrototype == [toString |-> "Object.prototype.toString"]

\* JavaScript `key in obj`: own and inherited properties
In(key, obj) == key \in DOMAIN obj \/ key \in DOMAIN ObjectPrototype

isValidToolName(key, obj) == In(key, obj)

\* JavaScript obj[key]
Get(obj, key) ==
    IF key \in DOMAIN obj THEN obj[key]
    ELSE IF key \in DOMAIN ObjectPrototype THEN ObjectPrototype[key]
    ELSE "undefined"

\* toolInstance(toolInvocation.args, context), by the function that is called
Invoke(fn, ti) ==
    CASE fn = "executions.getWeatherInformation" -> getWeatherInformation(ti)
      [] fn = "Object.prototype.toString" ->
            [kind |-> "return", value |-> "[object Undefined]"]
      [] OTHER -> \* calling what is no function raises a TypeError
            [kind |-> "throw", value |-> "TypeError"]

\* the model-agnostic form of the history handed to the executor
convertToCoreMessages(ms) == [core |-> ms]

-----------------------------------------------------------------------------
(* Transcript Repair: the loop over all messages *)

HasParts(message) == "parts" \in DOMAIN message

\* parts[0] is a tool invocation in state "call" with no `result` field
StuckCall(part) ==
    /\ part.type = "tool-invocation"
    /\ part.toolInvocation.state = "call"
    /\ ~("result" \in DOMAIN part.toolInvocation)

\* the repair that deletes the stuck part and forgets the unshift
ReplaceFirst_DropOnly(parts) == Tail(parts)

\* the repair with push in place of unshift: the text goes to the end
ReplaceFirst_Push(parts) == Tail(parts) \o <<FailedText>>

\* message.parts.slice(1) then unshift(the text part)
ReplaceFirst(parts) == <<FailedText>> \o Tail(parts)

NeedsRepair(message) ==
    /\ message.role = "assistant"
    /\ HasParts(message)
    /\ Len(message.parts) > 0
    /\ StuckCall(message.parts[1])

RepairMessage(message) ==
    IF NeedsRepair(message)
    THEN [message EXCEPT !.parts = ReplaceFirst(message.parts)]
    ELSE message

Repair(ms) == [i \in 1..Len(ms) |-> RepairMessage(ms[i])]

-----------------------------------------------------------------------------
(* The Invocation Reconciler: one part of the last message *)

HasResult(ti) == "result" \in DOMAIN ti

\* toolInvocation.result === v
ResultIs(ti, v) == HasResult(ti) /\ ti.result = v

\* !(toolName in executions) || toolInvocation.state !== "result"
NotOurs(ti, execs) == ~In(ti.toolName, execs) \/ ti.state # "result"

\* the approval test written as a truthiness test: if (toolInvocation.result)
IsApproved_AnyResult(ti) == HasResult(ti)

IsApproved(ti) == ResultIs(ti, APPROVAL.YES)

\* the denial test against the wrong sentinel
IsDenied_WrongSentinel(ti) == ResultIs(ti, APPROVAL.YES)

\* the denial branch taken as the plain `else` of the approval test
IsDenied_PlainElse(ti) == TRUE

IsDenied(ti) == ResultIs(ti, APPROVAL.NO)

\* the second check inside the approved branch
NotExecutable(ti, execs) == ~isValidToolName(ti.toolName, execs) \/ ti.state # "result"

\* the approved branch without the test of toolInstance
Truthy_Always(fn) == TRUE

\* if (toolInstance)
Truthy(fn) == fn # "undefined"

\* which branch of the async callback the part takes
Branch(part, execs) ==
    IF part.type # "tool-invocation" THEN "pass"
    ELSE LET ti == part.toolInvocation IN
         IF NotOurs(ti, execs) THEN "pass"
         ELSE IF IsApproved(ti) THEN
                  IF NotExecutable(ti, execs) THEN "pass"
                  ELSE IF Truthy(Get(execs, ti.toolName)) THEN "execute"
                  ELSE "noexec"
         ELSE IF IsDenied(ti) THEN "denied"
         ELSE "pass"

\* the spread written in the other order, { result, ...toolInvocation }: an
\* existing `result` field wins
SetResult_OldWins(ti, result) ==
    [f \in DOMAIN ti \cup {"result"} |-> IF f \in DOMAIN ti THEN ti[f] ELSE result]

\* { ...toolInvocation, result }
SetResult(ti, result) ==
    [f \in DOMAIN ti \cup {"result"} |-> IF f = "result" THEN result ELSE ti[f]]

\* { ...part, toolInvocation: { ...toolInvocation, result } }
UpdatedPart(part, result) ==
    [part EXCEPT !.toolInvocation = SetResult(part.toolInvocation, result)]

\* the event built from toolInvocation.result, the verdict, and not from the
\* new `result`
ToolResultEvent_Stale(ti, result) ==
    [type |-> "tool_result", toolCallId |-> ti.toolCallId, result |-> ti.result]

\* formatDataStreamPart("tool_result", { toolCallId, result })
ToolResultEvent(ti, result) ==
    [type |-> "tool_result", toolCallId |-> ti.toolCallId, result |-> result]

\* dataStream.write(...)
Write(stream, ti, result) == Append(stream, ToolResultEvent(ti, result))

\* the context argument of the executor
Context(ti, ms) ==
    [messages |-> convertToCoreMessages(ms), toolCallId |-> ti.toolCallId]

\* the record of one invocation: the function, its position, its two arguments
\* and what its promise will settle with
CallRecord(fn, i, ti, ms) ==
    [fn |-> fn, at |-> i,
     args |-> IF "args" \in DOMAIN ti THEN <<ti.args>> ELSE <<>>,
     context |-> Context(ti, ms),
     outcome |-> Invoke(fn, ti)]

NoOutcome == [kind |-> "none", value |-> ""]

\* a part that needs no await: its promise is fulfilled with `part`
Fulfilled(part) == [status |-> "fulfilled", part |-> part, outcome |-> NoOutcome]

\* the synchronous segment of the callback for parts[i]; acc carries the
\* promises, the invocation log and the stream so far
StartPart(part, i, execs, ms, acc) ==
    LET b == Branch(part, execs) IN
    CASE b = "pass" ->
            [acc EXCEPT !.slots = Append(@, Fulfilled(part))]
      [] b = "denied" ->
            [acc EXCEPT
                !.slots = Append(@, Fulfilled(UpdatedPart(part, DeniedError))),
                !.dataStream = Write(@, part.toolInvocation, DeniedError)]
      [] b = "noexec" ->
            [acc EXCEPT
                !.slots = Append(@, Fulfilled(UpdatedPart(part, NoExecuteError))),
                !.dataStream = Write(@, part.toolInvocation, NoExecuteError)]
      [] b = "execute" ->
            LET ti == part.toolInvocation
                fn == Get(execs, ti.toolName)
            IN  [acc EXCEPT
                    !.slots = Append(@, [status |-> "pending", part |-> part,
                                         outcome |-> Invoke(fn, ti)]),
                    !.calls = Append(@, CallRecord(fn, i, ti, ms))]

RECURSIVE MapParts(_, _, _, _, _)
\* parts.map(async (part) => ...): the callbacks start in positional order
MapParts(i, parts, execs, ms, acc) ==
    IF i > Len(parts) THEN acc
    ELSE MapParts(i + 1, parts, execs, ms, StartPart(parts[i], i, execs, ms, acc))

\* the parts collected as they complete (push on completion): those that
\* needed no await in positional order, then the awaited ones as they settled
CompletionOrder(ss) ==
    SelectSeq([i \in 1..Len(ss) |-> i],
              LAMBDA i : \A j \in 1..Len(settled) : settled[j] # i) \o settled

ProcessedParts_ByCompletion(ss) ==
    [k \in 1..Len(ss) |-> ss[CompletionOrder(ss)[k]].part]

\* the value Promise.all resolves with: the promises' values by position
ProcessedParts(ss) == [i \in 1..Len(ss) |-> ss[i].part]

\* the last message rebuilt field by field, `content` forgotten
Result_LosesContent(ms, processedParts) ==
    SubSeq(ms, 1, Len(ms) - 1)
        \o <<[id |-> ms[Len(ms)].id, role |-> ms[Len(ms)].role,
              parts |-> processedParts]>>

\* [...messages.slice(0, -1), { ...lastMessage, parts: processedParts }]
Result(ms, processedParts) ==
    SubSeq(ms, 1, Len(ms) - 1)
        \o <<[f \in DOMAIN ms[Len(ms)] \cup {"parts"} |->
                IF f = "parts" THEN processedParts ELSE ms[Len(ms)][f]]>>

\* Promise.race in place of Promise.all: the first fulfilled promise is enough
AllFulfilled_Race(ss) == \E i \in 1..Len(ss) : ss[i].status = "fulfilled"

\* Promise.all is fulfilled once every promise is
AllFulfilled(ss) == \A i \in 1..Len(ss) : ss[i].status = "fulfilled"

\* Promise.all is rejected once one promise is
SomeRejected(ss) == \E i \in 1..Len(ss) : ss[i].status = "rejected"

-----------------------------------------------------------------------------
(* The transcripts the model runs over *)

ToolCallId(m, p) == 10 * m + p

City(m, p) == IF (m + p) % 2 = 0 THEN "Paris" ELSE "London"

TI(name, m, p, state) ==
    [toolName |-> name, toolCallId |-> ToolCallId(m, p),
     args |-> [city |-> City(m, p)], state |-> state]

ToolPart(ti) == [type |-> "tool-invocation", toolInvocation |-> ti]

TextPart == [type |-> "text", text |-> "hello"]

\* the invocations that can stand at part p of message m: a confirmation-
\* required tool in every state, an auto-executing tool, and a name that is
\* in no table but is a property every object inherits
Invocations(m, p) ==
    { TI("getWeatherInformation", m, p, "call"),
      TI("getWeatherInformation", m, p, "partial-call"),
      SetResult(TI("getWeatherInformation", m, p, "call"), APPROVAL.YES),
      SetResult(TI("getWeatherInformation", m, p, "result"), APPROVAL.YES),
      SetResult(TI("getWeatherInformation", m, p, "result"), APPROVAL.NO),
      SetResult(TI("getWeatherInformation", m, p, "result"), "10am"),
      [toolName |-> "getWeatherInformation", toolCallId |-> ToolCallId(m, p),
       state |-> "result", result |-> APPROVAL.YES] }
    \cup
    { TI("getLocalTime", m, p, "call"),
      SetResult(TI("getLocalTime", m, p, "result"), APPROVAL.YES),
      SetResult(TI("getLocalTime", m, p, "result"), APPROVAL.NO),
      SetResult(TI("getLocalTime", m, p, "result"), "10am") }
    \cup
    { SetResult(TI("toString", m, p, "result"), APPROVAL.YES),
      SetResult(TI("toString", m, p, "result"), APPROVAL.NO) }

Parts(m, p) == {TextPart} \cup {ToolPart(ti) : ti \in Invocations(m, p)}

RECURSIVE PartSeqs(_, _)
\* the part lists of length n of message m
PartSeqs(m, n) ==
    IF n = 0 THEN {<<>>}
    ELSE {Append(s, q) : s \in PartSeqs(m, n - 1), q \in Parts(m, n)}

Content(m) == IF m % 2 = 0 THEN "what is the weather" ELSE "ok"

StuckPart(m, p) == ToolPart(TI("getWeatherInformation", m, p, "call"))

\* the last message: an assistant message without `parts` or with up to
\* MaxParts parts, or a user message (plain, one text part, or a stuck call)
LastMessages(m) ==
    {[id |-> m, role |-> r, content |-> Content(m)] : r \in {"user", "assistant"}}
    \cup {[id |-> m, role |-> "assistant", content |-> Content(m), parts |-> ps] :
            ps \in UNION {PartSeqs(m, n) : n \in 0..MaxParts}}
    \cup {[id |-> m, role |-> "user", content |-> Content(m), parts |-> ps] :
            ps \in {<<TextPart>>, <<StuckPart(m, 1)>>}}

\* an earlier message: a plain user message, or an assistant message that
\* starts with a call that never got its result
HistoryMessages(m) ==
    { [id |-> m, role |-> "user", content |-> Content(m)],
      [id |-> m, role |-> "assistant", content |-> Content(m),
       parts |-> <<StuckPart(m, 1), TextPart>>] }

RECURSIVE Histories(_)
Histories(n) ==
    IF n = 0 THEN {<<>>}
    ELSE {Append(h, x) : h \in Histories(n - 1), x \in HistoryMessages(n)}

Transcripts ==
    {<<>>} \cup
    UNION {{Append(h, l) : h \in Histories(n), l \in LastMessages(n + 1)} :
            n \in 0..MaxHistory}

-----------------------------------------------------------------------------
(* The inline executors of tools.ts and the BrowserDo object *)

KEEP_BROWSER_ALIVE_IN_SECONDS == 60

\* constructor(env, state): keptAliveInSeconds = 0, no browser yet; `armed`
\* is the alarm of its storage, set (or not) by whoever created the object
NewBrowserDo(armed) ==
    [keptAliveInSeconds |-> 0, browser |-> "none", alarmSet |-> armed,
     firings |-> 0, rearms |-> 0, closedAt |-> 0]

\* !this.browser || !this.browser.isConnected()
NeedsLaunch(b) == b # "connected"

\* the alarm handler that re-arms up to and including the limit
Extend_Inclusive(kept) == kept <= KEEP_BROWSER_ALIVE_IN_SECONDS

\* this.keptAliveInSeconds < KEEP_BROWSER_ALIVE_IN_SECONDS
Extend(kept) == kept < KEEP_BROWSER_ALIVE_IN_SECONDS

\* no run of an executor
ExecAtRest ==
    [tool |-> "none", agent |-> FALSE, num |-> 0, stories |-> 0, type |-> "none",
     pc |-> "off", browser |-> "none", launched |-> FALSE, closeCalls |-> 0,
     failed |-> {}, result |-> [kind |-> "none"]]

\* a failure that escapes the executor: the outer catch rethrows
OuterCatch_Rethrow(error) == [kind |-> "throw", value |-> "Error", error |-> error]

\* catch (error) { return `Error fetching Hacker News stories: ${error}` }
OuterCatch(error) ==
    [kind |-> "return", value |-> "Error fetching Hacker News stories", error |-> error]

\* the inner catch that rethrows without closing the browser
InnerCatchCloses_Never == FALSE

\* catch (error) { await browser.close(); throw error; }
InnerCatchCloses == TRUE

\* stories.slice(0, num) rendered into { __html: htmlOutput }
HtmlOutput(num, stories) ==
    [kind |-> "return", value |-> "__html", top |-> num,
     items |-> IF num < stories THEN num ELSE stories]

\* catch (error) { return `Error scheduling task: ${error}` }
ScheduleCatch(when) ==
    [kind |-> "return", value |-> "Error scheduling task", when |-> when]

\* agentContext.getStore() is empty: throw new Error("No agent found")
NoAgent == [kind |-> "throw", value |-> "No agent found"]

\* the executor is entered: browserRender(num) or scheduleTask(type, when, payload)
ExecStart ==
    /\ exec.pc = "entered"
    /\ exec' = IF ~exec.agent
               THEN [exec EXCEPT !.pc = "threw", !.result = NoAgent]
               ELSE [exec EXCEPT !.pc = IF exec.tool = "browserRender"
                                        THEN "initBrowser" ELSE "schedule"]
    /\ UNCHANGED <<chatVars, bdo>>

\* new BrowserDo(agent.env, null).initBrowser(): puppeteer.launch or its error
ExecInitBrowser ==
    /\ exec.pc = "initBrowser"
    /\ \E ok \in BOOLEAN :
         exec' = IF ok
                 THEN [exec EXCEPT !.pc = "newPage", !.browser = "open",
                                   !.launched = TRUE]
                 ELSE [exec EXCEPT !.pc = "done", !.failed = @ \cup {"launch"},
                                   !.result = OuterCatch("launch")]
    /\ UNCHANGED <<chatVars, bdo>>

NextStep(step) ==
    CASE step = "newPage" -> "goto"
      [] step = "goto" -> "evaluate"
      [] step = "evaluate" -> "close"

\* browser.newPage(), page.goto(...), page.evaluate(...): each may throw
ExecPageStep ==
    /\ exec.pc \in {"newPage", "goto", "evaluate"}
    /\ \E ok \in BOOLEAN :
         exec' = IF ok
                 THEN [exec EXCEPT !.pc = NextStep(exec.pc)]
                 ELSE [exec EXCEPT !.pc = "innerCatch", !.failed = @ \cup {exec.pc}]
    /\ UNCHANGED <<chatVars, bdo>>

\* await browser.close() of the try block, then the html is built and returned
ExecClose ==
    /\ exec.pc = "close"
    /\ \E ok \in BOOLEAN :
         exec' = IF ok
                 THEN [exec EXCEPT !.pc = "done", !.browser = "closed",
                                   !.closeCalls = @ + 1,
                                   !.result = HtmlOutput(exec.num, exec.stories)]
                 ELSE [exec EXCEPT !.pc = "innerCatch", !.closeCalls = @ + 1,
                                   !.failed = @ \cup {"close"}]
    /\ UNCHANGED <<chatVars, bdo>>

\* the inner catch: close the browser, rethrow into the outer catch
ExecInnerCatch ==
    /\ exec.pc = "innerCatch"
    /\ IF InnerCatchCloses
       THEN \E ok \in BOOLEAN :
              exec' = IF ok
                      THEN [exec EXCEPT !.pc = "done", !.browser = "closed",
                                        !.closeCalls = @ + 1,
                                        !.result = OuterCatch("step")]
                      ELSE [exec EXCEPT !.pc = "done", !.closeCalls = @ + 1,
                                        !.failed = @ \cup {"catchClose"},
                                        !.result = OuterCatch("close")]
       ELSE exec' = [exec EXCEPT !.pc = "done", !.result = OuterCatch("step")]
    /\ UNCHANGED <<chatVars, bdo>>

\* agent.schedule(...) inside try, not awaited: it returns, it throws, or it
\* returns a promise that is rejected later (nothing awaits or catches that)
ExecSchedule ==
    /\ exec.pc = "schedule"
    /\ \E outcome \in {"returns", "throws", "rejectsLater"} :
         exec' = IF outcome = "throws"
                 THEN [exec EXCEPT !.pc = "done", !.failed = @ \cup {"schedule"},
                                   !.result = ScheduleCatch(exec.type)]
                 ELSE [exec EXCEPT !.pc = "done",
                                   !.failed = IF outcome = "rejectsLater"
                                              THEN @ \cup {"scheduleRejected"} ELSE @,
                                   !.result = [kind |-> "return",
                                               value |-> "Task scheduled for",
                                               when |-> exec.type]]
    /\ UNCHANGED <<chatVars, bdo>>

\* BrowserDo.fetch: launch a browser when there is none connected
DoFetch ==
    /\ NeedsLaunch(bdo.browser)
    /\ \E ok \in BOOLEAN :
         bdo' = IF ok THEN [bdo EXCEPT !.browser = "connected"] ELSE bdo
    /\ UNCHANGED <<chatVars, exec>>

\* the platform fires the storage alarm: BrowserDo.alarm()
Alarm ==
    /\ bdo.alarmSet
    /\ bdo.firings < MaxFirings
    /\ LET kept == bdo.keptAliveInSeconds + 10 IN
       bdo' = IF Extend(kept)
              THEN [bdo EXCEPT !.keptAliveInSeconds = kept, !.firings = @ + 1,
                               !.alarmSet = TRUE, !.rearms = @ + 1]
              ELSE [bdo EXCEPT !.keptAliveInSeconds = kept, !.firings = @ + 1,
                               !.alarmSet = FALSE,
                               !.browser = IF @ = "none" THEN "none" ELSE "closed",
                               !.closedAt = IF bdo.browser = "none" THEN @
                                            ELSE bdo.firings + 1]
    /\ UNCHANGED <<chatVars, exec>>

\* an alarm set from outside the class (nothing in it sets the first one)
ArmAlarm ==
    /\ ~bdo.alarmSet
    /\ bdo.firings < MaxFirings
    /\ bdo' = [bdo EXCEPT !.alarmSet = TRUE]
    /\ UNCHANGED <<chatVars, exec>>

\* BrowserDo.cleanup
Cleanup ==
    /\ bdo.browser = "connected"
    /\ bdo' = [bdo EXCEPT !.browser = "closed"]
    /\ UNCHANGED <<chatVars, exec>>

ToolInit ==
    /\ executions = RealExecutions
    /\ input = <<>>
    /\ messages = <<>>
    /\ pc = "idle"
    /\ slots = <<>>
    /\ settled = <<>>
    /\ calls = <<>>
    /\ dataStream = <<>>
    /\ returned = <<>>
    /\ round = 1
    /\ bdo \in {NewBrowserDo(a) : a \in BOOLEAN}
    /\ exec \in {[ExecAtRest EXCEPT !.tool = "browserRender", !.pc = "entered",
                                    !.agent = a, !.num = n, !.stories = k] :
                    a \in BOOLEAN, n \in 0..MaxNum, k \in 0..MaxNum}
                \cup
                {[ExecAtRest EXCEPT !.tool = "scheduleTask", !.pc = "entered",
                                    !.agent = a, !.type = t] :
                    a \in BOOLEAN, t \in {"scheduled", "delayed", "cron"}}

ToolNext ==
    \/ ExecStart
    \/ ExecInitBrowser
    \/ ExecPageStep
    \/ ExecClose
    \/ ExecInnerCatch
    \/ ExecSchedule
    \/ DoFetch
    \/ Alarm
    \/ ArmAlarm
    \/ Cleanup

ToolSpec == ToolInit /\ [][ToolNext]_vars

-----------------------------------------------------------------------------
(* The state machine *)

Init ==
    /\ executions \in {RealExecutions, StubExecutions}
    /\ input \in Transcripts
    /\ messages = input
    /\ pc = "idle"
    /\ slots = <<>>
    /\ settled = <<>>
    /\ calls = <<>>
    /\ dataStream = <<>>
    /\ returned = <<>>
    /\ round = 1
    /\ exec = ExecAtRest
    /\ bdo = NewBrowserDo(FALSE)

\* the call of processToolCalls up to `await Promise.all(...)`
Call ==
    /\ pc = "idle"
    /\ LET ms == Repair(messages) IN
       /\ messages' = ms
       /\ IF Len(ms) = 0
          THEN \* messages[-1] is undefined: reading .parts raises a TypeError
               /\ pc' = "thrown"
               /\ UNCHANGED <<slots, calls, dataStream, returned>>
          ELSE IF ~HasParts(ms[Len(ms)])
          THEN \* if (!parts) return messages
               /\ pc' = "returned"
               /\ returned' = ms
               /\ UNCHANGED <<slots, calls, dataStream>>
          ELSE LET acc == MapParts(1, ms[Len(ms)].parts, executions, ms,
                                   [slots |-> <<>>, calls |-> calls,
                                    dataStream |-> dataStream])
               IN  /\ pc' = "awaiting"
                   /\ slots' = acc.slots
                   /\ calls' = acc.calls
                   /\ dataStream' = acc.dataStream
                   /\ UNCHANGED returned
    /\ UNCHANGED <<executions, input, settled, round, exec, bdo>>

\* the executor's promise of part i settles and the callback continues
Resume(i) ==
    /\ pc \in {"awaiting", "thrown"}
    /\ i \in 1..Len(slots)
    /\ slots[i].status = "pending"
    /\ settled' = Append(settled, i)
    /\ IF slots[i].outcome.kind = "throw"
       THEN /\ slots' = [slots EXCEPT ![i].status = "rejected"]
            /\ UNCHANGED dataStream
       ELSE LET result == slots[i].outcome.value
                part == slots[i].part
            IN  /\ dataStream' = Write(dataStream, part.toolInvocation, result)
                /\ slots' = [slots EXCEPT ![i] = Fulfilled(UpdatedPart(part, result))]
    /\ UNCHANGED <<executions, input, messages, pc, calls, returned, round, exec, bdo>>

\* Promise.all is fulfilled: processToolCalls returns the new transcript
Return ==
    /\ pc = "awaiting"
    /\ AllFulfilled(slots)
    /\ pc' = "returned"
    /\ returned' = Result(messages, ProcessedParts(slots))
    /\ UNCHANGED <<executions, input, messages, slots, settled, calls, dataStream, round,
                   exec, bdo>>

\* Promise.all is rejected: processToolCalls throws to its caller
Throw ==
    /\ pc = "awaiting"
    /\ SomeRejected(slots)
    /\ pc' = "thrown"
    /\ UNCHANGED <<executions, input, messages, slots, settled, calls, dataStream,
                   returned, round, exec, bdo>>

Next ==
    \/ Call
    \/ \E i \in 1..Len(slots) : Resume(i)
    \/ Return
    \/ Throw

Spec == Init /\ [][Next]_vars

\* processToolCalls called once more, on the transcript it returned, with a
\* stream and an invocation log of its own
CallAgain ==
    /\ pc = "returned"
    /\ round = 1
    /\ round' = 2
    /\ input' = returned
    /\ messages' = returned
    /\ pc' = "idle"
    /\ slots' = <<>>
    /\ settled' = <<>>
    /\ calls' = <<>>
    /\ dataStream' = <<>>
    /\ returned' = <<>>
    /\ UNCHANGED <<executions, exec, bdo>>

NextTwice ==
    \/ Call
    \/ \E i \in 1..Len(slots) : Resume(i)
    \/ Return
    \/ Throw
    \/ CallAgain

SpecTwice == Init /\ [][NextTwice]_vars

-----------------------------------------------------------------------------
(* What the properties below speak about *)

\* the parts of the last message of a transcript (none without `parts`)
LastPartsOf(ms) ==
    IF Len(ms) > 0 /\ HasParts(ms[Len(ms)]) THEN ms[Len(ms)].parts ELSE <<>>

InParts == LastPartsOf(input)
RepairedParts == LastPartsOf(messages)
OutParts == LastPartsOf(returned)

IsTool(part) == part.type = "tool-invocation"

\* the functions the Execution Table itself holds
TableExecutors == {executions[n] : n \in DOMAIN executions} \ {"undefined"}

\* the invocations made for the part with toolCallId id
CallsFor(id) == {k \in 1..Len(calls) : calls[k].context.toolCallId = id}

\* the stream events carrying toolCallId id
EventsFor(id) == {k \in 1..Len(dataStream) : dataStream[k].toolCallId = id}

\* a part awaiting a verdict's execution: state `result` holding v
Holds(part, v) ==
    /\ IsTool(part)
    /\ part.toolInvocation.state = "result"
    /\ "result" \in DOMAIN part.toolInvocation
    /\ part.toolInvocation.result = v

-----------------------------------------------------------------------------
-----------------------------------------------------------------------------
\* a part the approval branch executes: approved, for a table entry that
\* holds a function
ApprovedRegistered(part) ==
    /\ Holds(part, APPROVAL.YES)
    /\ part.toolInvocation.toolName \in DOMAIN executions
    /\ executions[part.toolInvocation.toolName] # "undefined"

\* C2 (approval executes exactly once): once processToolCalls has been
\* called, each approved part of the last message whose tool the table
\* registers has exactly one invocation: of that tool's executor, with the
\* part's own args and a context carrying its toolCallId and the message
\* history; and when processToolCalls returns, the part at that position
\* holds what that invocation returned.
C2_ExecutesOnce ==
    pc # "idle" =>
      \A p \in 1..Len(InParts) :
        ApprovedRegistered(InParts[p]) =>
          LET ti == InParts[p].toolInvocation IN
          /\ Cardinality(CallsFor(ti.toolCallId)) = 1
          /\ \A k \in CallsFor(ti.toolCallId) :
               /\ calls[k].fn = executions[ti.toolName]
               /\ calls[k].at = p
               /\ calls[k].args = (IF "args" \in DOMAIN ti THEN <<ti.args>> ELSE <<>>)
               /\ calls[k].context.messages.core = messages
               /\ pc = "returned" =>
                    /\ calls[k].outcome.kind = "return"
                    /\ OutParts[p].toolInvocation.result = calls[k].outcome.value
                    /\ OutParts[p].toolInvocation.toolCallId = ti.toolCallId

C2_Witness ==
    /\ pc = "returned"
    /\ \E p \in 1..Len(InParts) :
         /\ ApprovedRegistered(InParts[p])
         /\ OutParts[p].toolInvocation.result = "The weather in Paris is sunny"

-----------------------------------------------------------------------------
\* C3 (denial short-circuits): for a part of the last message in state
\* `result` holding DENIED whose toolName is a key of the Execution Table,
\* nothing is ever invoked, and the returned part holds the fixed denial
\* string, whatever the tool and its args.
C3_DenialShortCircuits ==
    \A p \in 1..Len(InParts) :
        (/\ Holds(InParts[p], APPROVAL.NO)
         /\ InParts[p].toolInvocation.toolName \in DOMAIN executions) =>
            /\ CallsFor(InParts[p].toolInvocation.toolCallId) = {}
            /\ pc = "returned" =>
                 OutParts[p].toolInvocation.result
                     = "Error: User denied access to tool execution"

C3_Witness ==
    /\ pc = "returned"
    /\ Len(calls) > 0
    /\ \E p \in 1..Len(InParts) :
         /\ Holds(InParts[p], APPROVAL.NO)
         /\ InParts[p].toolInvocation.toolName \in DOMAIN executions
         /\ OutParts[p].toolInvocation.result
                = "Error: User denied access to tool execution"

-----------------------------------------------------------------------------
\* C4 (no re-execution): a part of the last message in state `result` whose
\* result is neither sentinel gets no invocation and no stream event, and is
\* returned exactly as it was, also for a toolName the table holds.
C4_NoReExecution ==
    \A p \in 1..Len(InParts) :
        (/\ IsTool(InParts[p])
         /\ InParts[p].toolInvocation.state = "result"
         /\ "result" \in DOMAIN InParts[p].toolInvocation
         /\ InParts[p].toolInvocation.result \notin {APPROVAL.YES, APPROVAL.NO}) =>
            /\ CallsFor(InParts[p].toolInvocation.toolCallId) = {}
            /\ EventsFor(InParts[p].toolInvocation.toolCallId) = {}
            /\ pc = "returned" => OutParts[p] = InParts[p]

C4_Witness ==
    /\ pc = "returned"
    /\ Len(dataStream) > 0
    /\ \E p \in 1..Len(InParts) :
         /\ Holds(InParts[p], "10am")
         /\ InParts[p].toolInvocation.toolName \in DOMAIN executions
         /\ OutParts[p] = InParts[p]

-----------------------------------------------------------------------------
\* C5 (unknown/auto tool pass-through): a part of the last message whose
\* toolName is no entry of the Execution Table gets no invocation and no
\* stream event and is returned unchanged, whatever its state and result.
C5_PassThrough ==
    \A p \in 1..Len(InParts) :
        (/\ IsTool(InParts[p])
         /\ InParts[p].toolInvocation.toolName \notin DOMAIN executions) =>
            /\ CallsFor(InParts[p].toolInvocation.toolCallId) = {}
            /\ EventsFor(InParts[p].toolInvocation.toolCallId) = {}
            /\ pc = "returned" => OutParts[p] = RepairedParts[p]

-----------------------------------------------------------------------------
\* C6 (stream events): in every state in which processToolCalls has
\* returned, the stream holds exactly one tool_result event for each part of
\* the last message it resolved, carrying that part's toolCallId and its new
\* result, and no other event.
C6_StreamEvents ==
    pc = "returned" =>
      /\ \A p \in 1..Len(RepairedParts) :
           IF OutParts[p] # RepairedParts[p]
           THEN LET ti == OutParts[p].toolInvocation IN
                /\ Cardinality(EventsFor(ti.toolCallId)) = 1
                /\ \A k \in EventsFor(ti.toolCallId) :
                     /\ dataStream[k].type = "tool_result"
                     /\ dataStream[k].result = ti.result
                     /\ dataStream[k].result # RepairedParts[p].toolInvocation.result
           ELSE IsTool(OutParts[p]) =>
                  EventsFor(OutParts[p].toolInvocation.toolCallId) = {}
      /\ Len(dataStream)
           = Cardinality({p \in 1..Len(RepairedParts) : OutParts[p] # RepairedParts[p]})

\* an executed part and a denied part, the denial written first, next to a
\* part that was passed through
C6_Witness ==
    /\ pc = "returned"
    /\ Len(dataStream) = 2
    /\ Len(calls) = 1
    /\ dataStream[1].result = "Error: User denied access to tool execution"
    /\ dataStream[2].result = "The weather in London is sunny"

-----------------------------------------------------------------------------
\* the messages Transcript Repair is to rewrite
StuckFirst(message) ==
    /\ message.role = "assistant"
    /\ "parts" \in DOMAIN message
    /\ Len(message.parts) > 0
    /\ message.parts[1].type = "tool-invocation"
    /\ message.parts[1].toolInvocation.state = "call"
    /\ "result" \notin DOMAIN message.parts[1].toolInvocation

\* C7 (stuck-call repair): after the repair the transcript has the same
\* messages in the same order; a message that was an assistant message
\* starting with a stuck call has the text part "tool execution failed" in
\* place of that call and every other part and field as before; every other
\* message is as it was.
C7_StuckCallRepair ==
    pc # "idle" =>
      /\ Len(messages) = Len(input)
      /\ \A m \in 1..Len(input) :
           IF StuckFirst(input[m])
           THEN /\ DOMAIN messages[m] = DOMAIN input[m]
                /\ \A f \in DOMAIN input[m] \ {"parts"} : messages[m][f] = input[m][f]
                /\ Len(messages[m].parts) = Len(input[m].parts)
                /\ messages[m].parts[1] = [type |-> "text", text |-> "tool execution failed"]
                /\ \A p \in 2..Len(input[m].parts) :
                     messages[m].parts[p] = input[m].parts[p]
           ELSE messages[m] = input[m]

\* an assistant message was repaired while a user message that starts with
\* the same kind of call was not
C7_Witness ==
    /\ pc # "idle"
    /\ Len(input) = 2
    /\ StuckFirst(input[1])
    /\ messages[1].parts[1].type = "text"
    /\ Len(messages[1].parts) = 2
    /\ input[2].role = "user"
    /\ HasParts(input[2])
    /\ input[2].parts[1].type = "tool-invocation"
    /\ messages[2] = input[2]

-----------------------------------------------------------------------------
\* C8: after Transcript Repair no assistant message holds, at any position,
\* a tool invocation in state `call` without a `result` field.
C8_NoStuckCallLeft ==
    pc # "idle" =>
      \A m \in 1..Len(messages) :
        (messages[m].role = "assistant" /\ "parts" \in DOMAIN messages[m]) =>
          \A p \in 1..Len(messages[m].parts) :
            ~(/\ messages[m].parts[p].type = "tool-invocation"
              /\ messages[m].parts[p].toolInvocation.state = "call"
              /\ "result" \notin DOMAIN messages[m].parts[p].toolInvocation)

-----------------------------------------------------------------------------
C9_NoPartsWitness ==
    /\ pc = "returned"
    /\ Len(input) = 2
    /\ ~HasParts(input[2])
    /\ returned = messages

-----------------------------------------------------------------------------
\* C10 (fan-out/fan-in): when processToolCalls returns, every executor it
\* started has completed, the part of each holds that executor's result and
\* no longer the APPROVED sentinel, and each part stands at its original
\* position, whatever the order of completion.
C10_FanIn ==
    pc = "returned" =>
      /\ \A k \in 1..Len(calls) :
           /\ \E j \in 1..Len(settled) : settled[j] = calls[k].at
           /\ slots[calls[k].at].status = "fulfilled"
           /\ OutParts[calls[k].at].toolInvocation.toolCallId
                  = calls[k].context.toolCallId
           /\ OutParts[calls[k].at].toolInvocation.result # APPROVAL.YES
           /\ OutParts[calls[k].at].toolInvocation.result = calls[k].outcome.value
      /\ \A p \in 1..Len(slots) : slots[p].status # "pending"

\* both executors of two approved parts ran, the second finishing first
C10_Witness ==
    /\ pc = "returned"
    /\ Len(calls) = 2
    /\ settled = <<2, 1>>
    /\ \A p \in 1..2 : ApprovedRegistered(InParts[p])
    /\ \A p \in 1..2 : OutParts[p].toolInvocation.result # APPROVAL.YES

-----------------------------------------------------------------------------
\* C11 (per-part failure isolation): when the executor of an approved part
\* throws, no promise of a part is rejected and processToolCalls does not
\* throw to its caller.
C11_FailureIsolation ==
    (\E k \in 1..Len(calls) : calls[k].outcome.kind = "throw") =>
        /\ pc # "thrown"
        /\ \A p \in 1..Len(slots) : slots[p].status # "rejected"

-----------------------------------------------------------------------------
\* C12 (repair idempotence): Transcript Repair applied to the transcript the
\* repair loop has produced changes nothing.
C12_RepairIdempotent ==
    pc # "idle" => Repair(messages) = messages

\* the repair replaced the first of two stuck calls of a message; the second
\* repair finds the text part first and leaves the other stuck call
C12_Witness ==
    /\ pc # "idle"
    /\ Len(input) = 1
    /\ StuckFirst(input[1])
    /\ Len(input[1].parts) = 2
    /\ input[1].parts[2].type = "tool-invocation"
    /\ input[1].parts[2].toolInvocation.state = "call"
    /\ "result" \notin DOMAIN input[1].parts[2].toolInvocation
    /\ messages # input
    /\ messages[1].parts[2] = input[1].parts[2]

-----------------------------------------------------------------------------
\* a tool of the registry whose descriptor has no inline executor
ConfirmationRequired(n) == n \in DOMAIN tools /\ "execute" \notin tools[n]

\* C13 (registry / Execution Table agreement): the keys of the exported
\* Execution Table are exactly the tools of the registry without an inline
\* executor and each holds a function; so, run with that table, an approved
\* invocation of a confirmation-required tool gets its executor run, and no
\* executor of the table runs for a tool that has an inline executor.
C13_RegistryAgreement ==
    /\ DOMAIN RealExecutions = {n \in DOMAIN tools : "execute" \notin tools[n]}
    /\ \A n \in DOMAIN RealExecutions : RealExecutions[n] # "undefined"
    /\ executions = RealExecutions =>
         /\ \A k \in 1..Len(calls) :
              calls[k].fn \in TableExecutors =>
                ConfirmationRequired(InParts[calls[k].at].toolInvocation.toolName)
         /\ pc # "idle" =>
              \A p \in 1..Len(InParts) :
                (/\ Holds(InParts[p], APPROVAL.YES)
                 /\ ConfirmationRequired(InParts[p].toolInvocation.toolName)) =>
                    CallsFor(InParts[p].toolInvocation.toolCallId) # {}

\* with the exported table an approved getWeatherInformation was executed
\* and an approved getLocalTime was passed through
C13_Witness ==
    /\ executions = RealExecutions
    /\ pc = "returned"
    /\ Len(InParts) = 2
    /\ Holds(InParts[1], APPROVAL.YES)
    /\ InParts[1].toolInvocation.toolName = "getWeatherInformation"
    /\ OutParts[1].toolInvocation.result = "The weather in Paris is sunny"
    /\ Holds(InParts[2], APPROVAL.YES)
    /\ InParts[2].toolInvocation.toolName = "getLocalTime"
    /\ OutParts[2] = InParts[2]

-----------------------------------------------------------------------------
\* C14 (frame of the reconciliation): the returned transcript equals the
\* repaired transcript in every earlier message and in every field of the
\* last message but `parts`; each part of the last message is the repaired
\* part, or that part with only toolInvocation.result replaced; the
\* toolCallIds of the returned parts are pairwise distinct.
C14_Frame ==
    pc = "returned" =>
      /\ Len(returned) = Len(messages)
      /\ \A m \in 1..Len(messages) - 1 : returned[m] = messages[m]
      /\ DOMAIN returned[Len(returned)] = DOMAIN messages[Len(messages)]
      /\ \A f \in DOMAIN messages[Len(messages)] \ {"parts"} :
           returned[Len(returned)][f] = messages[Len(messages)][f]
      /\ Len(OutParts) = Len(RepairedParts)
      /\ \A p \in 1..Len(RepairedParts) :
           \/ OutParts[p] = RepairedParts[p]
           \/ /\ IsTool(RepairedParts[p])
              /\ DOMAIN OutParts[p] = DOMAIN RepairedParts[p]
              /\ OutParts[p].type = "tool-invocation"
              /\ DOMAIN OutParts[p].toolInvocation
                    = DOMAIN RepairedParts[p].toolInvocation
              /\ \A f \in DOMAIN RepairedParts[p].toolInvocation \ {"result"} :
                   OutParts[p].toolInvocation[f] = RepairedParts[p].toolInvocation[f]
      /\ \A p, q \in 1..Len(OutParts) :
           (IsTool(OutParts[p]) /\ IsTool(OutParts[q]) /\ p # q) =>
              OutParts[p].toolInvocation.toolCallId
                  # OutParts[q].toolInvocation.toolCallId

\* after an earlier message was repaired, one part of the last message was
\* resolved and its sibling was not
C14_Witness ==
    /\ pc = "returned"
    /\ Len(input) = 2
    /\ messages[1] # input[1]
    /\ Len(OutParts) = 2
    /\ OutParts[1] # RepairedParts[1]
    /\ OutParts[2] = RepairedParts[2]
    /\ IsTool(OutParts[2])

-----------------------------------------------------------------------------
\* C15 (missing executor on approval): an approved part whose toolName is a
\* key of the Execution Table that holds no function gets no invocation; its
\* promise is fulfilled, never rejected; one stream event with the literal
\* error string is written for its toolCallId, and the returned part holds
\* that string.
C15_MissingExecutor ==
    pc # "idle" =>
      \A p \in 1..Len(InParts) :
        (/\ Holds(InParts[p], APPROVAL.YES)
         /\ InParts[p].toolInvocation.toolName \in DOMAIN executions
         /\ executions[InParts[p].toolInvocation.toolName] = "undefined") =>
            LET id == InParts[p].toolInvocation.toolCallId IN
            /\ CallsFor(id) = {}
            /\ slots[p].status = "fulfilled"
            /\ Cardinality(EventsFor(id)) = 1
            /\ \A k \in EventsFor(id) :
                 dataStream[k].result = "Error: No execute function found on tool"
            /\ pc # "thrown"
            /\ pc = "returned" =>
                 OutParts[p].toolInvocation.result
                     = "Error: No execute function found on tool"

C15_Witness ==
    /\ pc = "returned"
    /\ executions = StubExecutions
    /\ \E p \in 1..Len(InParts) :
         /\ Holds(InParts[p], APPROVAL.YES)
         /\ InParts[p].toolInvocation.toolName = "getWeatherInformation"
         /\ OutParts[p].toolInvocation.result
                = "Error: No execute function found on tool"

-----------------------------------------------------------------------------
\* C17 (idempotent on its own output): a part processToolCalls resolved
\* holds no sentinel afterwards; and processToolCalls applied to the
\* transcript it returned invokes nothing, writes no stream event, does not
\* throw and returns a transcript equal to the one it was given.
C17_IdempotentOnOutput ==
    /\ (round = 1 /\ pc = "returned") =>
         \A p \in 1..Len(RepairedParts) :
           OutParts[p] # RepairedParts[p] =>
             OutParts[p].toolInvocation.result \notin {APPROVAL.YES, APPROVAL.NO}
    /\ round = 2 =>
         /\ calls = <<>>
         /\ dataStream = <<>>
         /\ pc # "thrown"
         /\ messages = input
         /\ pc = "returned" => returned = input

\* the second call has returned a transcript in which the first call had
\* executed one part and denied another
C17_Witness ==
    /\ round = 2
    /\ pc = "returned"
    /\ Len(OutParts) = 2
    /\ \E p, q \in 1..2 :
         /\ \E city \in {"Paris", "London"} :
              Holds(OutParts[p], WeatherText(city))
         /\ Holds(OutParts[q], "Error: User denied access to tool execution")

-----------------------------------------------------------------------------
\* the steps of browserRender that can fail
BrowserFaults == {"launch", "newPage", "goto", "evaluate", "close", "catchClose"}

-----------------------------------------------------------------------------
\* C18 (keep-alive terminates): every firing of the alarm adds 10 to
\* keptAliveInSeconds; each of the first five firings of a fresh BrowserDo
\* sets the next alarm and leaves the browser alone; the sixth and every
\* later firing sets no alarm and leaves no browser connected.
C18_KeepAliveTerminates ==
    [][ bdo'.firings = bdo.firings + 1 =>
          /\ bdo'.keptAliveInSeconds = bdo.keptAliveInSeconds + 10
          /\ bdo'.keptAliveInSeconds = 10 * bdo'.firings
          /\ bdo'.firings <= 5 =>
               /\ bdo'.alarmSet
               /\ bdo'.rearms = bdo.rearms + 1
               /\ bdo'.browser = bdo.browser
          /\ bdo'.firings >= 6 =>
               /\ ~bdo'.alarmSet
               /\ bdo'.rearms = 5
               /\ bdo'.browser # "connected"
               /\ bdo.browser = "none" => bdo'.browser = "none" ]_vars

\* seven firings: five set the next alarm, the last two closed the browser
\* and set none
C18_Witness ==
    /\ bdo.firings = 7
    /\ bdo.rearms = 5
    /\ bdo.browser = "closed"
    /\ ~bdo.alarmSet
    /\ bdo.keptAliveInSeconds = 70

-----------------------------------------------------------------------------
\* C19 (browserRender releases the browser): when browserRender has finished
\* after initBrowser succeeded, browser.close() has been called at least
\* once, and the browser is closed unless the close call of the catch block
\* itself failed.
C19_BrowserReleased ==
    (exec.tool = "browserRender" /\ exec.pc = "done" /\ exec.launched) =>
        /\ exec.closeCalls >= 1
        /\ exec.browser # "closed" => "catchClose" \in exec.failed

\* page.goto failed and the catch block closed the browser
C19_Witness ==
    /\ exec.tool = "browserRender"
    /\ exec.pc = "done"
    /\ exec.launched
    /\ exec.failed = {"goto"}
    /\ exec.closeCalls = 1
    /\ exec.browser = "closed"

====
